---- MODULE Spec2Model ----
(***************************************************************************)
(* Verification model of the contact search assistant (src/agent.py):      *)
(* the query expander (_preprocess_query), the candidate merger            *)
(* (_search_contacts), the response formatter (_format_contact_response)   *)
(* and the search tool that composes them (_search_contacts_tool).         *)
(*                                                                         *)
(* Text is modelled by TLA+ strings (sequences of characters).  Scores are *)
(* integers in units of 0.0001, so 0.25 is 2500 and 0.7004 is 7004.        *)
(***************************************************************************)
EXTENDS Integers, Sequences, FiniteSets, TLC

VARIABLES
  pc,               \* position of the running call
  query,            \* the query argument of the running call
  top_k,            \* the top_k argument of _search_contacts
  query_variations, \* the list returned by _preprocess_query
  vi,               \* number of variations the loop of _search_contacts has finished
  nmatch,           \* number of matches of the current response already processed
  all_contacts,     \* the dict of _search_contacts, in insertion order
  occurrences,      \* per name, in order of discovery: the raw score of the match
                    \* its stored entry was built from
  failed,           \* number of variations whose provider calls raised
  contacts,         \* the list returned by _search_contacts
  response,         \* the string returned by the search tool
  raised,           \* TRUE when an exception left the running call
  via_tool,         \* TRUE when the running search was started by the search tool
  self,             \* the fields of the assistant object
  first_call,       \* the first expansion of a query of RepeatQueries in this run,
                    \* and whether a call of another query followed it
  provider_calls,   \* the calls the running search made to the embedding provider
                    \* and to the index, in order
  best_raw,         \* per name of the index: the best raw score of the matches the
                    \* index returned for it in the running search (0: none)
  cancelled_at,     \* the number of provider calls the running search had made when
                    \* the session cancelled it (-1: not cancelled)
  result,           \* the dict _capture_memory returned to the save_memory tool
  memory_text,      \* the memory_text argument of the save_memory tool
  locals            \* the local variables of the latest call of _preprocess_query
                    \* that was stepped through: the list `variations`, the
                    \* number of its elements the last loop has visited, the
                    \* set `seen` and the list `unique_variations`

vars == <<pc, query, top_k, query_variations, vi, nmatch, all_contacts, occurrences, failed,
          contacts, response, raised, via_tool, self, first_call, provider_calls, best_raw,
          cancelled_at, result, memory_text, locals>>

(***************************************************************************)
(* Python string operations used by the source.                            *)
(***************************************************************************)
\* the ASCII characters str.strip() and str.split() take as blanks: space, tab,
\* line feed, carriage return, form feed, and the control characters 0B
\* (vertical tab), 1C, 1D, 1E and 1F, which stand in the literals as they are
Whitespace ==
  {" ", "\t", "\n", "\r", "\f", "", "", "", "", ""}

UpperCase == "ABCDEFGHIJKLMNOPQRSTUVWXYZ"
LowerCase == "abcdefghijklmnopqrstuvwxyz"

CharAt(s, i) == SubSeq(s, i, i)

\* one character of str.lower()
LowerChar(c) ==
  IF \E i \in 1..Len(UpperCase) : CharAt(UpperCase, i) = c
  THEN CharAt(LowerCase, CHOOSE i \in 1..Len(UpperCase) : CharAt(UpperCase, i) = c)
  ELSE c

RECURSIVE lower(_)
\* str.lower()
lower(s) == IF Len(s) = 0 THEN "" ELSE LowerChar(Head(s)) \o lower(Tail(s))

RECURSIVE lstrip(_)
lstrip(s) == IF Len(s) > 0 /\ Head(s) \in Whitespace THEN lstrip(Tail(s)) ELSE s

RECURSIVE rstrip(_)
rstrip(s) ==
  IF Len(s) > 0 /\ CharAt(s, Len(s)) \in Whitespace
  THEN rstrip(SubSeq(s, 1, Len(s) - 1))
  ELSE s

\* str.strip()
strip(s) == rstrip(lstrip(s))

\* s.startswith(p)
startswith(s, p) == Len(p) <= Len(s) /\ SubSeq(s, 1, Len(p)) = p

\* s.endswith(p)
endswith(s, p) == Len(p) <= Len(s) /\ SubSeq(s, Len(s) - Len(p) + 1, Len(s)) = p

\* the Python test `sub in s` on strings
Contains(sub, s) ==
  \E i \in 1..(Len(s) - Len(sub) + 1) : SubSeq(s, i, i + Len(sub) - 1) = sub

RECURSIVE replace(_, _, _)
\* s.replace(old, new): every non-overlapping occurrence, left to right
replace(s, old, new) ==
  IF Len(s) = 0 THEN ""
  ELSE IF startswith(s, old)
       THEN new \o replace(SubSeq(s, Len(old) + 1, Len(s)), old, new)
       ELSE Head(s) \o replace(Tail(s), old, new)

RECURSIVE FirstWord(_)
\* the leading run of non-whitespace characters
FirstWord(s) ==
  IF Len(s) = 0 \/ Head(s) \in Whitespace THEN "" ELSE Head(s) \o FirstWord(Tail(s))

RECURSIVE split(_)
\* str.split(): the whitespace-delimited words
split(s) ==
  LET t == lstrip(s)
      w == FirstWord(t)
  IN IF Len(t) = 0 THEN <<>>
     ELSE <<w>> \o split(SubSeq(t, Len(w) + 1, Len(t)))

RECURSIVE join(_, _)
\* sep.join(items)
join(sep, items) ==
  IF Len(items) = 0 THEN ""
  ELSE IF Len(items) = 1 THEN items[1]
  ELSE items[1] \o sep \o join(sep, Tail(items))

(***************************************************************************)
(* The query expander.                                                     *)
(***************************************************************************)
\* the dict `corrections`, in insertion order: <<wrong, right>>
corrections == <<
  <<"engineergs", "engineers">>,
  <<"engineerg", "engineer">>,
  <<"enginners", "engineers">>,
  <<"enginer", "engineer">>,
  <<"developpers", "developers">>,
  <<"develper", "developer">>,
  <<"mangager", "manager">>,
  <<"mangers", "managers">>,
  <<"desiner", "designer">>,
  <<"desingers", "designers">>,
  <<"anlyst", "analyst">>,
  <<"anlysts", "analysts">>,
  <<"scrum master", "scrum master">>,
  <<"scrummaster", "scrum master">>,
  <<"devops", "devops engineer">>,
  <<"datascientist", "data scientist">>,
  <<"prodcut", "product">>,
  <<"frontent", "frontend">>,
  <<"bakend", "backend">>,
  <<"fullstack", "full stack">> >>

\* the dict `role_expansions`, in insertion order: <<term, expansions>>
role_expansions == <<
  <<"engineer", <<"engineer", "engineering", "software engineer", "developer">> >>,
  <<"engineers", <<"engineers", "engineering", "software engineers", "developers">> >>,
  <<"dev", <<"developer", "engineer", "software engineer">> >>,
  <<"devs", <<"developers", "engineers", "software engineers">> >>,
  <<"designer", <<"designer", "design", "ux designer", "ui designer", "graphic designer">> >>,
  <<"designers", <<"designers", "design", "ux designers", "ui designers", "graphic designers">> >>,
  <<"manager", <<"manager", "management", "project manager", "product manager">> >>,
  <<"managers", <<"managers", "management", "project managers", "product managers">> >>,
  <<"pm", <<"product manager", "project manager", "manager">> >>,
  <<"qa", <<"quality assurance", "tester", "qa engineer">> >>,
  <<"sales", <<"sales", "sales representative", "account executive">> >>,
  <<"marketing", <<"marketing", "digital marketing", "marketing specialist">> >> >>

RECURSIVE CorrectionsFrom(_, _)
\* the loop over corrections.items(): the corrections accumulate in
\* corrected_query and every hit appends the current corrected_query
CorrectionsFrom(i, corrected_query) ==
  IF i > Len(corrections) THEN <<>>
  ELSE LET wrong == corrections[i][1]
           right == corrections[i][2]
       IN IF Contains(wrong, corrected_query)
          THEN LET c == replace(corrected_query, wrong, right)
               IN <<c>> \o CorrectionsFrom(i + 1, c)
          ELSE CorrectionsFrom(i + 1, corrected_query)

\* the variations the word at position i contributes (plural, then singular)
WordForms(words, i) ==
  LET word == words[i]
      word_lower == lower(word)
  IN (IF ~endswith(word_lower, "s") /\ Len(word_lower) > 3
      THEN <<join(" ", [words EXCEPT ![i] = word \o "s"])>>
      ELSE <<>>)
     \o
     (IF endswith(word_lower, "s") /\ Len(word_lower) > 4
      THEN <<join(" ", [words EXCEPT ![i] = SubSeq(word, 1, Len(word) - 1)])>>
      ELSE <<>>)

RECURSIVE PluralsFrom(_, _)
\* the loop over enumerate(words)
PluralsFrom(words, i) ==
  IF i > Len(words) THEN <<>> ELSE WordForms(words, i) \o PluralsFrom(words, i + 1)

\* the inner loop over one term's expansions
ExpandTerm(query_lower, term, expansions) ==
  [k \in 1..Len(expansions) |-> replace(query_lower, term, expansions[k])]

RECURSIVE ExpansionsFrom(_, _)
\* the loop over role_expansions.items()
ExpansionsFrom(i, query_lower) ==
  IF i > Len(role_expansions) THEN <<>>
  ELSE LET term == role_expansions[i][1]
           expansions == role_expansions[i][2]
       IN (IF Contains(term, query_lower)
           THEN ExpandTerm(query_lower, term, expansions)
           ELSE <<>>)
          \o ExpansionsFrom(i + 1, query_lower)

\* the list `variations` with the role expansions generated before the
\* corrections and the plural and singular forms
variations_SynonymsFirst(q) ==
  <<strip(q)>>
  \o ExpansionsFrom(1, lower(q))
  \o CorrectionsFrom(1, lower(q))
  \o PluralsFrom(split(q), 1)

\* the list `variations` before duplicates are removed
variations(q) ==
  <<strip(q)>>
  \o CorrectionsFrom(1, lower(q))
  \o PluralsFrom(split(q), 1)
  \o ExpansionsFrom(1, lower(q))

RECURSIVE UniqueFrom(_, _, _)
\* the loop that removes duplicates while preserving order
UniqueFrom(vs, i, seen) ==
  IF i > Len(vs) THEN <<>>
  ELSE IF lower(vs[i]) \in seen
       THEN UniqueFrom(vs, i + 1, seen)
       ELSE <<vs[i]>> \o UniqueFrom(vs, i + 1, seen \cup {lower(vs[i])})

unique_variations(vs) == UniqueFrom(vs, 1, {})

\* the slice left out: the whole list
Take_Everything(s, n) == s

\* list[:n], for n >= 0
Take(s, n) == SubSeq(s, 1, IF n < Len(s) THEN n ELSE Len(s))

_preprocess_query(q) == Take(unique_variations(variations(q)), 5)

(***************************************************************************)
(* The similarity index and the embedding provider, as the merger sees     *)
(* them.                                                                   *)
(***************************************************************************)
\* bounds of the model
MaxTopK == 1
MaxMatches == 2

\* the metadata of the vectors stored in the index: dicts, keyed by field name
IndexMetadata == {
  [name |-> "Dana", title |-> "Software Engineer", company |-> "Google"],
  [name |-> "Sam Lee", title |-> "Designer", company |-> "Acme",
   location |-> "Austin", industry |-> "Design"],
  [title |-> "Recruiter", company |-> "Acme"] }

\* similarity scores an index match can carry, in units of 0.0001: below, on and
\* just above the threshold, and two that round to the same 3 decimals; none is
\* an exact tie of the rounding
Scores == {2400, 2500, 2501, 7002, 7004}

\* one element of pc_resp.matches
Matches == [metadata : IndexMetadata, score : Scores]

Min(a, b) == IF a < b THEN a ELSE b

\* how many matches index.query(top_k=n) returns at most: as many as requested
MatchLimit(n) == n

\* the vectors of the index of the searches for 'CTO', nearest first: each has
\* a name of its own
MaxVectors == 7
ToolNames == <<"Dana", "Sam Lee", "Ravi", "Mei", "Tom", "Zoe", "Ana", "Lin">>
ToolVector(i) == [name |-> ToolNames[i], title |-> "CTO", company |-> "Acme"]

\* the scores of the matches of these searches: on the threshold, just above it
\* and well above it
ToolScores == {2500, 2501, 5000}

\* the errors the two provider calls can raise
ProviderErrors == {"EmbeddingUnavailable", "IndexUnavailable"}

\* the record of one call of openai_sync.embeddings.create(input=variation)
EmbeddingsCreate(variation, ok) ==
  [api |-> "embeddings.create", input |-> variation, top_k |-> 0, ok |-> ok]

\* the record of one call of index.query(vector=q_emb, top_k=n) for the variation
\* q_emb was made from
IndexQuery(variation, n, ok) ==
  [api |-> "index.query", input |-> variation, top_k |-> n, ok |-> ok]

\* the failed call made a second time
CallsUntil_RetriedOnce(exc, variation, n) ==
  IF exc = "EmbeddingUnavailable"
  THEN <<EmbeddingsCreate(variation, FALSE), EmbeddingsCreate(variation, FALSE)>>
  ELSE <<IndexQuery(variation, n, FALSE), IndexQuery(variation, n, FALSE)>>

\* the calls made when the error exc is raised: the one call that fails
CallsUntil(exc, variation, n) ==
  IF exc = "EmbeddingUnavailable"
  THEN <<EmbeddingsCreate(variation, FALSE)>>
  ELSE <<IndexQuery(variation, n, FALSE)>>

\* a handler for the errors of the index only
IsException_IndexOnly(exc) == exc = "IndexUnavailable"

\* no handler at all
IsException_Nothing(exc) == FALSE

\* the classes `except Exception` catches
IsException(exc) == exc \in {"EmbeddingUnavailable", "IndexUnavailable"}

(***************************************************************************)
(* The candidate merger.                                                   *)
(***************************************************************************)
\* md.get(key, "")
Get(md, key) == IF key \in DOMAIN md THEN md[key] ELSE ""

RECURSIVE FloatSideFrom(_, _, _)
\* the binary digits of x / 10000 by long division: r is the remainder, n the
\* digits of the 53-digit mantissa still to come, started is TRUE from the
\* first digit 1 on; the remainder left after the mantissa says on which side
\* of x / 10000 the float lies
FloatSideFrom(r, n, started) ==
  IF r = 0 THEN 0
  ELSE IF n = 0 THEN (IF r > 5000 THEN 1 ELSE -1)
  ELSE LET bit == 2 * r >= 10000
           rest == IF bit THEN 2 * r - 10000 ELSE 2 * r
       IN IF bit \/ started
          THEN FloatSideFrom(rest, n - 1, TRUE)
          ELSE FloatSideFrom(rest, n, FALSE)

\* the float of the score x (in units of 0.0001, 0 <= x < 20000) against the
\* decimal x / 10000: 1 when the float is above it, -1 when below, 0 when
\* the float is the decimal.  The long division starts from the fraction; a
\* score of 1.0 or more has the first digit of its mantissa before the point
FloatSide(x) ==
  IF x >= 10000 THEN FloatSideFrom(x % 10000, 52, TRUE)
  ELSE FloatSideFrom(x, 53, FALSE)

\* round(x, 3) on a score in units of 0.0001.  round() rounds the float: a
\* score that ends in 5 goes to the side its float lies on, and to the even
\* digit only when the float is the decimal itself (0.0625, 0.1875, ...)
Round3(x) ==
  LET q == x \div 10
      r == x % 10
  IN IF r < 5 THEN q * 10
     ELSE IF r > 5 THEN (q + 1) * 10
     ELSE IF FloatSide(x) > 0 THEN (q + 1) * 10
     ELSE IF FloatSide(x) < 0 THEN q * 10
     ELSE IF q % 2 = 0 THEN q * 10 ELSE (q + 1) * 10

\* `name in all_contacts`
HasKey(d, name) == \E i \in 1..Len(d) : d[i].name = name

\* all_contacts[name]
Lookup(d, name) == d[CHOOSE i \in 1..Len(d) : d[i].name = name]

\* a list instead of a dict: every stored contact is appended
Store_Appending(d, contact) == Append(d, contact)

\* the old entry deleted before the new one is stored: a replaced key goes last
Store_MovingToEnd(d, contact) ==
  LET others == {i \in 1..Len(d) : d[i].name # contact.name}
      kept(n) == CHOOSE i \in others : Cardinality({k \in others : k <= i}) = n
  IN Append([n \in 1..Cardinality(others) |-> d[kept(n)]], contact)

\* all_contacts[name] = contact: a new key goes last, an old key keeps its place
Store(d, contact) ==
  IF HasKey(d, contact.name)
  THEN [i \in 1..Len(d) |-> IF d[i].name = contact.name THEN contact ELSE d[i]]
  ELSE Append(d, contact)

\* the dict built from one match
Contact(match, variation) ==
  LET md == match.metadata
  IN [name       |-> Get(md, "name"),
      title      |-> Get(md, "title"),
      company    |-> Get(md, "company"),
      location   |-> Get(md, "location"),
      industry   |-> Get(md, "industry"),
      score      |-> Round3(match.score),
      query_used |-> variation]

\* the relevance threshold, 0.25
MinScore == 2500

\* no threshold test
AboveThreshold_Always(score) == TRUE

\* the threshold test with >= in place of >
AboveThreshold_AtLeast(score) == score >= MinScore

\* the threshold test on one match
AboveThreshold(score) == score > MinScore

\* no test: every match above the threshold is stored
AlreadyBetter_Never(d, name, score) == FALSE

\* the test that skips a match whose name is already stored
AlreadyBetter(d, name, score) == HasKey(d, name) /\ Lookup(d, name).score >= score

\* the body of the loop over pc_resp.matches, on the dict
MergeMatch(d, match, variation) ==
  LET name == Get(match.metadata, "name")
  IN IF ~AboveThreshold(match.score) THEN d
     ELSE IF AlreadyBetter(d, name, match.score) THEN d
     ELSE Store(d, Contact(match, variation))

\* TRUE when the loop body stores an entry for the match
Stores(d, match) ==
  /\ AboveThreshold(match.score)
  /\ ~AlreadyBetter(d, Get(match.metadata, "name"), match.score)

\* the names of the contacts in the index
IndexNames ==
  {Get(md, "name") : md \in IndexMetadata} \cup {ToolNames[i] : i \in 1..MaxVectors}

\* best_raw before the index returned anything
NoneReturned == [n \in IndexNames |-> 0]

\* best_raw after the index returned the match
BestReturned(best, match) ==
  LET name == Get(match.metadata, "name")
  IN IF match.score > best[name] THEN [best EXCEPT ![name] = match.score] ELSE best

\* the record of the stored occurrences after the loop body ran on the match
Occurred(occ, d, match) ==
  LET name == Get(match.metadata, "name")
      o == [name |-> name, raw |-> match.score]
  IN IF ~Stores(d, match) THEN occ
     ELSE IF \E i \in 1..Len(occ) : occ[i].name = name
          THEN [i \in 1..Len(occ) |-> IF occ[i].name = name THEN o ELSE occ[i]]
          ELSE Append(occ, o)

RECURSIVE MergeMatches(_, _, _)
\* the loop over pc_resp.matches, on the dict
MergeMatches(d, matches, variation) ==
  IF Len(matches) = 0 THEN d
  ELSE MergeMatches(MergeMatch(d, Head(matches), variation), Tail(matches), variation)

RECURSIVE InsertByScore(_, _)
\* x goes behind every entry whose score is not lower
InsertByScore(sorted, x) ==
  IF Len(sorted) = 0 THEN <<x>>
  ELSE IF Head(sorted).score >= x.score
       THEN <<Head(sorted)>> \o InsertByScore(Tail(sorted), x)
       ELSE <<x>> \o sorted

RECURSIVE SortFrom(_, _, _)
SortFrom(cs, i, sorted) ==
  IF i > Len(cs) THEN sorted ELSE SortFrom(cs, i + 1, InsertByScore(sorted, cs[i]))

\* contacts.sort(key=lambda x: x["score"], reverse=True): stable, best first
SortByScore(cs) == SortFrom(cs, 1, <<>>)

(***************************************************************************)
(* The response formatter.                                                 *)
(***************************************************************************)
\* the chain with the test of 'design' before the test of 'engineer'
Suggestions_DesignFirst(query_lower) ==
  IF Contains("design", query_lower)
  THEN <<"designers", "UX designers", "UI designers">>
  ELSE IF Contains("engineer", query_lower)
  THEN <<"engineers", "developers", "software engineers">>
  ELSE IF Contains("manager", query_lower) \/ Contains("manag", query_lower)
  THEN <<"managers", "product managers", "project managers">>
  ELSE IF Contains("dev", query_lower)
  THEN <<"developers", "engineers", "software developers">>
  ELSE <<>>

\* the if/elif chain that picks the suggestions of the zero-results answer
Suggestions(query_lower) ==
  IF Contains("engineer", query_lower)
  THEN <<"engineers", "developers", "software engineers">>
  ELSE IF Contains("design", query_lower)
  THEN <<"designers", "UX designers", "UI designers">>
  ELSE IF Contains("manager", query_lower) \/ Contains("manag", query_lower)
  THEN <<"managers", "product managers", "project managers">>
  ELSE IF Contains("dev", query_lower)
  THEN <<"developers", "engineers", "software developers">>
  ELSE <<>>

\* the lower-cased query quoted in place of the query
FormatNone_QuotesLowered(q) ==
  LET query_lower == lower(q)
      suggestions == Suggestions(query_lower)
  IN "I searched for '" \o query_lower \o "' but found no matches. "
     \o (IF Len(suggestions) > 0
         THEN "You might try searching for: " \o join(", ", Take(suggestions, 3)) \o "."
         ELSE "Would you like to try a different term?")

\* the answer for an empty list
FormatNone(q) ==
  LET suggestions == Suggestions(lower(q))
  IN "I searched for '" \o q \o "' but found no matches. "
     \o (IF Len(suggestions) > 0
         THEN "You might try searching for: " \o join(", ", Take(suggestions, 3)) \o "."
         ELSE "Would you like to try a different term?")

\* every part appended, empty or not
FormatOne_KeepsEmpty(c) ==
  LET parts == <<c.name, "a " \o c.title, "at " \o c.company, "in " \o c.location,
                 "in the " \o c.industry \o " industry">>
  IN "I found " \o join(" ", parts) \o "."

\* the answer for a single contact
FormatOne(c) ==
  LET parts == <<c.name>>
               \o (IF c.title # "" THEN <<"a " \o c.title>> ELSE <<>>)
               \o (IF c.company # "" THEN <<"at " \o c.company>> ELSE <<>>)
               \o (IF c.location # "" THEN <<"in " \o c.location>> ELSE <<>>)
               \o (IF c.industry # "" THEN <<"in the " \o c.industry \o " industry">> ELSE <<>>)
  IN "I found " \o join(" ", parts) \o "."

\* the key a contact is grouped under
CompanyKey(c) == IF c.company # "" THEN c.company ELSE "Other"

RECURSIVE KeysFrom(_, _, _)
\* the keys of by_company, in insertion order
KeysFrom(cs, i, keys) ==
  IF i > Len(cs) THEN keys
  ELSE KeysFrom(cs, i + 1,
                IF \E k \in 1..Len(keys) : keys[k] = CompanyKey(cs[i])
                THEN keys ELSE Append(keys, CompanyKey(cs[i])))

by_company(cs) == KeysFrom(cs, 1, <<>>)

\* an entry with the location appended
Snippet_WithLocation(c, groups) ==
  c.name
  \o (IF c.title # "" THEN ", " \o c.title ELSE "")
  \o (IF c.company # "" /\ groups > 1 THEN " at " \o c.company ELSE "")
  \o (IF c.location # "" THEN " in " \o c.location ELSE "")

\* one entry of `snippets`
Snippet(c, groups) ==
  c.name
  \o (IF c.title # "" THEN ", " \o c.title ELSE "")
  \o (IF c.company # "" /\ groups > 1 THEN " at " \o c.company ELSE "")

\* the last snippet joined by ' and ', the others by ', '
FormatMany_LastByAnd(cs, q) ==
  LET keys == by_company(cs)
      listed == Take(cs, 3)
      snippets == [i \in 1..Len(listed) |-> Snippet(listed[i], Len(keys))]
  IN "I found " \o ToString(Len(cs)) \o " people matching '" \o q \o "'. "
     \o (IF Len(keys) = 1 THEN "They all work at " \o keys[1] \o ". " ELSE "")
     \o "Here are a few: " \o join(", ", Take(snippets, Len(snippets) - 1))
     \o " and " \o snippets[Len(snippets)]
     \o (IF Len(cs) > 3 THEN ", and " \o ToString(Len(cs) - 3) \o " more." ELSE "")

\* every contact listed, without the cut to 3
FormatMany_ListsAll(cs, q) ==
  LET keys == by_company(cs)
      snippets == [i \in 1..Len(cs) |-> Snippet(cs[i], Len(keys))]
  IN "I found " \o ToString(Len(cs)) \o " people matching '" \o q \o "'. "
     \o (IF Len(keys) = 1 THEN "They all work at " \o keys[1] \o ". " ELSE "")
     \o "Here are a few: " \o join(", ", snippets)
     \o (IF Len(cs) > 3 THEN ", and " \o ToString(Len(cs) - 3) \o " more." ELSE "")

\* the answer for two or more contacts
FormatMany(cs, q) ==
  LET keys == by_company(cs)
      listed == Take(cs, 3)
      snippets == [i \in 1..Len(listed) |-> Snippet(listed[i], Len(keys))]
  IN "I found " \o ToString(Len(cs)) \o " people matching '" \o q \o "'. "
     \o (IF Len(keys) = 1 THEN "They all work at " \o keys[1] \o ". " ELSE "")
     \o "Here are a few: " \o join(", ", snippets)
     \o (IF Len(cs) > 3 THEN ", and " \o ToString(Len(cs) - 3) \o " more." ELSE "")

\* an answer of its own when the list is empty because the providers failed
_format_contact_response_OutageNotice(cs, q) ==
  IF Len(cs) = 0
  THEN IF failed > 0 THEN "Sorry, the search is unavailable right now." ELSE FormatNone(q)
  ELSE IF Len(cs) = 1 THEN FormatOne(cs[1])
  ELSE FormatMany(cs, q)

_format_contact_response(cs, q) ==
  IF Len(cs) = 0 THEN FormatNone(q)
  ELSE IF Len(cs) = 1 THEN FormatOne(cs[1])
  ELSE FormatMany(cs, q)

(***************************************************************************)
(* The calls.  The local best_query of _search_contacts is left out: it is *)
(* written in the loop and read only by a print statement.                 *)
(***************************************************************************)
\* the fields __init__ sets on the assistant
SelfAfterInit == [pc |-> "Pinecone", index |-> "ai-network", openai_sync |-> "OpenAI"]

\* the queries the searches of the model are run on
SearchQueries == {"", "Dana", "enginer"}

\* the default of the parameter top_k, used by the search tool
DefaultTopK == 5

\* result before _capture_memory returned: no dict
NoResult == [returned |-> FALSE]

\* first_call before any expansion of a query of RepeatQueries
NoCall == [query |-> "", variations |-> <<>>, followed |-> FALSE]

\* locals before any call of _preprocess_query was stepped through
NoLocals == [variations |-> <<>>, visited |-> 0, seen |-> {}, unique_variations |-> <<>>]

Init ==
  /\ pc = "idle"
  /\ query = ""
  /\ top_k = DefaultTopK
  /\ query_variations = <<>>
  /\ vi = 0
  /\ nmatch = 0
  /\ all_contacts = <<>>
  /\ occurrences = <<>>
  /\ failed = 0
  /\ contacts = <<>>
  /\ response = ""
  /\ raised = FALSE
  /\ via_tool = FALSE
  /\ self = SelfAfterInit
  /\ first_call = NoCall
  /\ provider_calls = <<>>
  /\ best_raw = NoneReturned
  /\ cancelled_at = -1
  /\ result = NoResult
  /\ memory_text = ""
  /\ locals = NoLocals

\* the entry keeping the query of the call in a field of the assistant
EnterSearch_RemembersQuery(q, k, tool) ==
  /\ pc = "idle"
  /\ pc' = "variation"
  /\ query' = q
  /\ top_k' = k
  /\ via_tool' = tool
  /\ query_variations' = _preprocess_query(q)
  /\ vi' = 0
  /\ nmatch' = 0
  /\ all_contacts' = <<>>
  /\ occurrences' = <<>>
  /\ failed' = 0
  /\ contacts' = <<>>
  /\ response' = ""
  /\ raised' = FALSE
  /\ provider_calls' = <<>>
  /\ best_raw' = NoneReturned
  /\ self' = [f \in DOMAIN self \cup {"prior_query"} |->
                IF f = "prior_query" THEN q ELSE self[f]]
  /\ UNCHANGED <<first_call, cancelled_at, result, memory_text, locals>>

\* entry of _search_contacts up to the loop over the variations
EnterSearch(q, k, tool) ==
  /\ pc = "idle"
  /\ pc' = "variation"
  /\ query' = q
  /\ top_k' = k
  /\ via_tool' = tool
  /\ query_variations' = _preprocess_query(q)
  /\ vi' = 0
  /\ nmatch' = 0
  /\ all_contacts' = <<>>
  /\ occurrences' = <<>>
  /\ failed' = 0
  /\ contacts' = <<>>
  /\ response' = ""
  /\ raised' = FALSE
  /\ provider_calls' = <<>>
  /\ best_raw' = NoneReturned
  /\ UNCHANGED <<self, first_call, cancelled_at, result, memory_text, locals>>

\* the search tool is called: it calls _search_contacts(query)
SearchContactsTool(q) == EnterSearch(q, DefaultTopK, TRUE)

\* _search_contacts is called directly with a top_k of the caller's choice
SearchContacts(q, k) == EnterSearch(q, k, FALSE)

\* a pass of the loop: openai_sync.embeddings.create returns the embedding of
\* the variation
EmbeddingsCreateReturns ==
  /\ pc = "variation"
  /\ vi < Len(query_variations)
  /\ pc' = "embedded"
  /\ provider_calls' = Append(provider_calls, EmbeddingsCreate(query_variations[vi + 1], TRUE))
  /\ UNCHANGED <<query, top_k, query_variations, vi, nmatch, all_contacts, occurrences,
                 failed, contacts, response, raised, via_tool, self, first_call, best_raw,
                 cancelled_at, result, memory_text, locals>>

\* the pass goes on: index.query returns pc_resp
IndexQueryReturns ==
  /\ pc = "embedded"
  /\ pc' = "matches"
  /\ nmatch' = 0
  /\ provider_calls' =
       Append(provider_calls, IndexQuery(query_variations[vi + 1], top_k * 2, TRUE))
  /\ UNCHANGED <<query, top_k, query_variations, vi, all_contacts, occurrences, failed,
                 contacts, response, raised, via_tool, self, first_call, best_raw,
                 cancelled_at, result, memory_text, locals>>

\* one pass of the loop over pc_resp.matches, for a response of at most `most`
\* matches
ProcessMatchOf(match, most) ==
  /\ pc = "matches"
  /\ nmatch < Min(MatchLimit(2 * top_k), most)
  /\ all_contacts' = MergeMatch(all_contacts, match, query_variations[vi + 1])
  /\ occurrences' = Occurred(occurrences, all_contacts, match)
  /\ nmatch' = nmatch + 1
  /\ best_raw' = BestReturned(best_raw, match)
  /\ UNCHANGED <<pc, query, top_k, query_variations, vi, failed, contacts,
                 response, raised, via_tool, self, first_call, provider_calls, cancelled_at, result, memory_text, locals>>

\* one pass of the loop over pc_resp.matches, the response being any sequence
\* of at most MaxMatches matches
ProcessMatch(match) == ProcessMatchOf(match, MaxMatches)

\* one pass of the loop over pc_resp.matches, the response listing the vectors
\* of the index of the searches for 'CTO' once each, nearest first
ProcessVector(score) ==
  /\ pc = "matches"
  /\ nmatch < MaxVectors
  /\ ProcessMatchOf([metadata |-> ToolVector(nmatch + 1), score |-> score], MaxVectors)

\* pc_resp.matches is exhausted: on to the next variation
MatchesExhausted ==
  /\ pc = "matches"
  /\ pc' = "variation"
  /\ vi' = vi + 1
  /\ nmatch' = 0
  /\ UNCHANGED <<query, top_k, query_variations, all_contacts, occurrences, failed, contacts,
                 response, raised, via_tool, self, first_call, provider_calls, best_raw, cancelled_at, result, memory_text, locals>>

\* the place of the pass at which the error exc is raised: in the embedding
\* call, or in the index query that follows it
RaisedAt(exc) == IF exc = "EmbeddingUnavailable" THEN "variation" ELSE "embedded"

\* a pass of the loop: the embedding call or the index query raises exc
VariationFails(exc) ==
  /\ pc = RaisedAt(exc)
  /\ vi < Len(query_variations)
  /\ failed' = failed + 1
  /\ IF IsException(exc)
     THEN \* caught by the handler of the pass: on to the next variation
          /\ pc' = "variation"
          /\ vi' = vi + 1
          /\ UNCHANGED raised
     ELSE \* caught by no handler of _search_contacts: the call is left
          /\ pc' = "raised"
          /\ raised' = TRUE
          /\ UNCHANGED vi
  /\ provider_calls' = provider_calls \o CallsUntil(exc, query_variations[vi + 1], top_k * 2)
  /\ UNCHANGED <<query, top_k, query_variations, nmatch, all_contacts, occurrences, contacts,
                 response, via_tool, self, first_call, best_raw, cancelled_at, result,
                 memory_text, locals>>

\* after the loop: sort, cut to top_k, return
ReturnContacts ==
  /\ pc = "variation"
  /\ vi = Len(query_variations)
  /\ contacts' = Take(SortByScore(all_contacts), top_k)
  /\ pc' = IF via_tool THEN "searched" ELSE "done"
  /\ UNCHANGED <<query, top_k, query_variations, vi, nmatch, all_contacts, occurrences, failed,
                 response, raised, via_tool, self, first_call, provider_calls, best_raw, cancelled_at, result, memory_text, locals>>

\* the list cut in place to the 3 contacts that are listed
FormatResponse_Truncating ==
  /\ pc \in {"searched", "formatting"}
  /\ response' = _format_contact_response(contacts, query)
  /\ contacts' = Take(contacts, 3)
  /\ pc' = "done"
  /\ UNCHANGED <<query, top_k, query_variations, vi, nmatch, all_contacts, occurrences, failed,
                 raised, via_tool, self, first_call, provider_calls, best_raw, cancelled_at, result, memory_text, locals>>

\* _format_contact_response is called
FormatResponse ==
  /\ pc \in {"searched", "formatting"}
  /\ response' = _format_contact_response(contacts, query)
  /\ pc' = "done"
  /\ UNCHANGED <<query, top_k, query_variations, vi, nmatch, all_contacts, occurrences, failed,
                 contacts, raised, via_tool, self, first_call, provider_calls, best_raw, cancelled_at, result, memory_text, locals>>

\* the caller has the return value (or the exception): the locals of the call
\* are gone and the assistant waits for the next call
NextCall ==
  /\ pc \in {"done", "raised"}
  /\ pc' = "idle"
  /\ query' = ""
  /\ top_k' = DefaultTopK
  /\ query_variations' = <<>>
  /\ vi' = 0
  /\ nmatch' = 0
  /\ all_contacts' = <<>>
  /\ occurrences' = <<>>
  /\ failed' = 0
  /\ contacts' = <<>>
  /\ response' = ""
  /\ raised' = FALSE
  /\ via_tool' = FALSE
  /\ provider_calls' = <<>>
  /\ best_raw' = NoneReturned
  /\ cancelled_at' = -1
  /\ result' = NoResult
  /\ memory_text' = ""
  /\ UNCHANGED <<self, first_call, locals>>

Next ==
  \/ \E q \in SearchQueries : SearchContactsTool(q)
  \/ \E q \in SearchQueries, k \in 0..MaxTopK : SearchContacts(q, k)
  \/ EmbeddingsCreateReturns
  \/ IndexQueryReturns
  \/ \E match \in Matches : ProcessMatch(match)
  \/ MatchesExhausted
  \/ \E exc \in ProviderErrors : VariationFails(exc)
  \/ ReturnContacts
  \/ FormatResponse
  \/ NextCall

Spec == Init /\ [][Next]_vars

(***************************************************************************)
(* The expander on its own: _preprocess_query called on one query after    *)
(* another.                                                                *)
(***************************************************************************)
\* bound of the model: the number of words of a generated query
MaxWords == 2

\* the words the generated queries are made of
ExpandWords == {"enginners", "designer", "Sales", "PM", "development", "at"}

RECURSIVE SeqsUpTo(_, _)
\* the sequences over S of length at most n
SeqsUpTo(S, n) ==
  IF n = 0 THEN {<<>>}
  ELSE LET shorter == SeqsUpTo(S, n - 1)
       IN shorter \cup {Append(s, x) : s \in {t \in shorter : Len(t) = n - 1}, x \in S}

\* the queries _preprocess_query is called on: the words joined by one blank,
\* and queries with blanks or tabs around or between the words
ExpandQueries ==
  {join(" ", ws) : ws \in SeqsUpTo(ExpandWords, MaxWords)}
  \cup {" " \o w \o "  " : w \in ExpandWords}
  \cup {"  ", "\tpm", "\fpm", "product\fmanager", "scrum  master ", "Scrum Master"}

\* the queries whose first expansion is remembered
RepeatQueries == {"Sales", " designer  "}

\* the list `variations` that _preprocess_query builds for each of the queries
\* it is called on
VariationsOf == [q \in ExpandQueries |-> variations(q)]

\* _preprocess_query(q) is called with the set `seen` of the call before it in
\* place of a new one
PreprocessQuery_SeenKept(q) ==
  /\ pc = "idle"
  /\ pc' = "unique"
  /\ query' = q
  /\ locals' = [variations |-> VariationsOf[q], visited |-> 0, seen |-> locals.seen,
                unique_variations |-> <<>>]
  /\ UNCHANGED <<top_k, query_variations, vi, nmatch, all_contacts, occurrences, failed,
                 contacts, response, raised, via_tool, self, first_call, provider_calls,
                 best_raw, cancelled_at, result, memory_text>>

\* _preprocess_query(q) is called and runs up to the loop that removes the
\* duplicates: the list `variations` is built, `seen` and `unique_variations`
\* are new and empty
PreprocessQuery(q) ==
  /\ pc = "idle"
  /\ pc' = "unique"
  /\ query' = q
  /\ locals' = [variations |-> VariationsOf[q], visited |-> 0, seen |-> {},
                unique_variations |-> <<>>]
  /\ UNCHANGED <<top_k, query_variations, vi, nmatch, all_contacts, occurrences, failed,
                 contacts, response, raised, via_tool, self, first_call, provider_calls,
                 best_raw, cancelled_at, result, memory_text>>

\* one pass of the loop, comparing the variation itself with the set `seen`
KeepIfUnseen_Cased ==
  /\ pc = "unique"
  /\ locals.visited < Len(locals.variations)
  /\ locals' =
       LET variation == locals.variations[locals.visited + 1]
       IN IF variation \notin locals.seen
          THEN [locals EXCEPT !.visited = @ + 1,
                              !.seen = @ \cup {variation},
                              !.unique_variations = Append(@, variation)]
          ELSE [locals EXCEPT !.visited = @ + 1]
  /\ UNCHANGED <<pc, query, top_k, query_variations, vi, nmatch, all_contacts, occurrences,
                 failed, contacts, response, raised, via_tool, self, first_call,
                 provider_calls, best_raw, cancelled_at, result, memory_text>>

\* one pass of the loop that removes the duplicates: the next variation is kept
\* unless its lower-cased text is in `seen`
KeepIfUnseen ==
  /\ pc = "unique"
  /\ locals.visited < Len(locals.variations)
  /\ locals' =
       LET variation == locals.variations[locals.visited + 1]
       IN IF lower(variation) \notin locals.seen
          THEN [locals EXCEPT !.visited = @ + 1,
                              !.seen = @ \cup {lower(variation)},
                              !.unique_variations = Append(@, variation)]
          ELSE [locals EXCEPT !.visited = @ + 1]
  /\ UNCHANGED <<pc, query, top_k, query_variations, vi, nmatch, all_contacts, occurrences,
                 failed, contacts, response, raised, via_tool, self, first_call,
                 provider_calls, best_raw, cancelled_at, result, memory_text>>

\* first_call once the call of the query has returned the list: the first call
\* of a query of RepeatQueries is remembered, and so is that a call of another
\* query followed it
Remembered(call, q, returned) ==
  IF call = NoCall
  THEN IF q \in RepeatQueries
       THEN [query |-> q, variations |-> returned, followed |-> FALSE]
       ELSE NoCall
  ELSE IF q # call.query THEN [call EXCEPT !.followed = TRUE] ELSE call

\* the loop is over and the whole list is returned
ReturnVariations_Uncut ==
  /\ pc = "unique"
  /\ locals.visited = Len(locals.variations)
  /\ pc' = "expanded"
  /\ query_variations' = locals.unique_variations
  /\ first_call' = Remembered(first_call, query, query_variations')
  /\ UNCHANGED <<query, top_k, vi, nmatch, all_contacts, occurrences, failed, contacts,
                 response, raised, via_tool, self, provider_calls, best_raw, cancelled_at,
                 result, memory_text, locals>>

\* the loop is over: unique_variations[:5] is returned
ReturnVariations ==
  /\ pc = "unique"
  /\ locals.visited = Len(locals.variations)
  /\ pc' = "expanded"
  /\ query_variations' = Take(locals.unique_variations, 5)
  /\ first_call' = Remembered(first_call, query, query_variations')
  /\ UNCHANGED <<query, top_k, vi, nmatch, all_contacts, occurrences, failed, contacts,
                 response, raised, via_tool, self, provider_calls, best_raw, cancelled_at,
                 result, memory_text, locals>>

\* the caller has the list
PreprocessReturns ==
  /\ pc = "expanded"
  /\ pc' = "idle"
  /\ query' = ""
  /\ query_variations' = <<>>
  /\ UNCHANGED <<top_k, vi, nmatch, all_contacts, occurrences, failed, contacts,
                 response, raised, via_tool, self, first_call, provider_calls, best_raw,
                 cancelled_at, result, memory_text, locals>>

NextExpand ==
  \/ \E q \in ExpandQueries : PreprocessQuery(q)
  \/ KeepIfUnseen
  \/ ReturnVariations
  \/ PreprocessReturns

SpecExpand == Init /\ [][NextExpand]_vars

(***************************************************************************)
(* The formatter on its own, and searches on the query of scenario A and   *)
(* on a query of 5 variations, against an index that holds Dana only.  The *)
(* lists the formatter is called on are lists _search_contacts can return: *)
(* contacts built from index metadata, with distinct names, best score     *)
(* first.                                                                  *)
(***************************************************************************)
\* bound of the model: the length of a list the formatter is called on
MaxContacts == 5

\* the names of the contacts of a list, by rank
FormatNames == <<"Dana", "Sam Lee", "Ravi", "Mei", "Tom", "Zoe">>

\* the metadata fields a vector of the index may or may not carry
OptionalFields == {"title", "company", "location", "industry"}

\* metadata with every optional field
FullMetadata ==
  [title |-> "Software Engineer", company |-> "Google",
   location |-> "Austin", industry |-> "Software"]

\* metadata of a single contact: every subset of the optional fields
SingleShapes == {[k \in D |-> FullMetadata[k]] : D \in SUBSET OptionalFields}

\* metadata of the contacts of a longer list: two companies, no company, no
\* field at all
ListShapes == {
  [title |-> "Engineer", company |-> "Acme"],
  [title |-> "Designer", company |-> "Other Co", location |-> "Austin"],
  [location |-> "Austin", industry |-> "Design"],
  [k \in {} |-> ""] }

\* the metadata with the name of the contact
Named(shape, name) ==
  [k \in DOMAIN shape \cup {"name"} |-> IF k = "name" THEN name ELSE shape[k]]

\* the score of the contact at rank i, in units of 0.0001
RankScore(i) == 8100 - 100 * (i - 1)

\* the list _search_contacts builds from matches with these metadata
ContactsOf(shapes, variation) ==
  [i \in 1..Len(shapes) |->
     Contact([metadata |-> Named(shapes[i], FormatNames[i]), score |-> RankScore(i)],
             variation)]

\* the metadata of the lists the formatter is called on
FormatShapes ==
  {<<sh>> : sh \in SingleShapes} \cup SeqsUpTo(ListShapes, MaxContacts)

\* the queries the formatter is called with
FormatQueries == {"unicorn tamer", "Design Engineers", " dev "}

\* _format_contact_response(contacts, query) is called
FormatContactResponse(cs, q) ==
  /\ pc = "idle"
  /\ pc' = "formatting"
  /\ contacts' = cs
  /\ query' = q
  /\ UNCHANGED <<top_k, query_variations, vi, nmatch, all_contacts, occurrences, failed,
                 response, raised, via_tool, self, first_call, provider_calls, best_raw, cancelled_at, result, memory_text, locals>>

\* queries of searches that found nothing, with none, one or two of the
\* keywords of the suggestions
SuggestionQueries ==
  {"Designers", "design engineer", "product management", "Managers", "devs",
   "web developer designs", "management of devs", "sales"}

\* a caller calls the formatter on a list _search_contacts can return
FormatterCalled ==
  /\ pc = "idle"
  /\ \/ \E shapes \in FormatShapes, q \in FormatQueries :
          FormatContactResponse(ContactsOf(shapes, strip(q)), q)
     \/ \E q \in SuggestionQueries : FormatContactResponse(<<>>, q)

\* the query of scenario A, and a query whose expansion is cut to 5 variations
ScenarioQueries == {"enginners at gogle", "engineers"}

\* what the index of scenario A returns: Dana with score 0.81
ScenarioMatches ==
  {[metadata |-> [name |-> "Dana", title |-> "Software Engineer", company |-> "Google"],
    score |-> 8100]}

\* one pass of the loop over pc_resp.matches in the scenario: the index has
\* matches only for a variation that contains 'engineers'
ProcessScenarioMatch(match) ==
  /\ ProcessMatch(match)
  /\ Contains("engineers", query_variations[vi + 1])

\* the hosting session cancels the call of the search tool while its search
\* is running (the user starts a new utterance).  The tool awaits only
\* _search_contacts and _format_contact_response, whose provider calls are
\* synchronous: the call has no point at which the cancellation is delivered,
\* and no code reads it.
SessionCancels ==
  /\ pc \in {"variation", "embedded", "matches"}
  /\ via_tool
  /\ cancelled_at = -1
  /\ cancelled_at' = Len(provider_calls)
  /\ UNCHANGED <<pc, query, top_k, query_variations, vi, nmatch, all_contacts, occurrences,
                 failed, contacts, response, raised, via_tool, self, first_call,
                 provider_calls, best_raw, result, memory_text, locals>>

NextFormat ==
  \/ FormatterCalled
  \/ \E q \in ScenarioQueries : SearchContactsTool(q)
  \/ \E q \in ScenarioQueries, k \in 1..MaxTopK : SearchContacts(q, k)
  \/ EmbeddingsCreateReturns
  \/ IndexQueryReturns
  \/ \E match \in ScenarioMatches : ProcessScenarioMatch(match)
  \/ MatchesExhausted
  \/ \E exc \in ProviderErrors : VariationFails(exc)
  \/ ReturnContacts
  \/ FormatResponse
  \/ SessionCancels
  \/ NextCall

SpecFormat == Init /\ [][NextFormat]_vars

(***************************************************************************)
(* The merger on scores that round up and down: searches for 'Dana'        *)
(* against an index that returns Dana and two vectors without a name, with *)
(* scores on both sides of 0.700 and 0.701.                                *)
(***************************************************************************)
\* scores that round down (0.7002, 0.7004, 0.7012) and up (0.7006, 0.7008) to
\* 3 decimals, one halfway between 0.700 and 0.701 in decimal (0.7005, whose
\* float rounds up), and one below the threshold
RoundingScores == {2400, 7002, 7004, 7005, 7006, 7008, 7012}

\* the metadata of the vectors of this index: Dana, a vector with no name in
\* its metadata, and a vector with no metadata (`match.metadata or {}`)
RoundingMetadata == {
  [name |-> "Dana", title |-> "Software Engineer", company |-> "Google"],
  [title |-> "Recruiter", company |-> "Acme"],
  [k \in {} |-> ""] }

\* the elements of pc_resp.matches in these searches
RoundingMatches == [metadata : RoundingMetadata, score : RoundingScores]

NextMerge ==
  \/ \E k \in 1..MaxTopK : SearchContacts("Dana", k)
  \/ EmbeddingsCreateReturns
  \/ IndexQueryReturns
  \/ \E match \in RoundingMatches : ProcessMatch(match)
  \/ MatchesExhausted
  \/ ReturnContacts
  \/ NextCall

SpecMerge == Init /\ [][NextMerge]_vars

(***************************************************************************)
(* The search tool on a query of one variation against an index of         *)
(* MaxVectors named vectors: index.query(top_k=10) returns up to           *)
(* MaxVectors matches, more names than the 5 contacts the search returns.  *)
(***************************************************************************)
\* a query _preprocess_query leaves alone: one variation
ToolQueries == {"CTO"}

NextTool ==
  \/ \E q \in ToolQueries : SearchContactsTool(q)
  \/ EmbeddingsCreateReturns
  \/ IndexQueryReturns
  \/ \E score \in ToolScores : ProcessVector(score)
  \/ MatchesExhausted
  \/ ReturnContacts
  \/ FormatResponse
  \/ NextCall

SpecTool == Init /\ [][NextTool]_vars

(***************************************************************************)
(* The save_memory tool: the tool posts the text to the capture endpoint,  *)
(* awaits the result and words its answer.  A result is a JSON object      *)
(* whose fields success, person, details and confidence may each be        *)
(* missing; confidence is in units of 0.01.                                *)
(***************************************************************************)
\* the character U+2014 of the confirmation, written in ASCII
EmDash == "--"

\* result.get(key, default)
GetOr(d, key, default) == IF key \in DOMAIN d THEN d[key] ELSE default

\* the truth value of result.get('success')
Succeeded(d) == GetOr(d, "success", FALSE)

\* the texts the tool is called with
MemoryTexts == {"I met Sarah today, she works at Google", "Sarah", "uh"}

\* the JSON objects with at most the field key, its value one of values
Optional(key, values) == {[k \in {} |-> ""]} \cup {key :> v : v \in values}

\* the results of the capture endpoint: success true or false, a person, the
\* details, a confidence below, just below, on and above 0.7, each field
\* present or missing
CaptureResults ==
  {s @@ p @@ d @@ c : s \in Optional("success", {TRUE, FALSE}),
                      p \in Optional("person", {"Sarah"}),
                      d \in Optional("details", {"works at Google"}),
                      c \in Optional("confidence", {0, 69, 70, 100})}

\* the errors the request can end with: no connection, a body that is no JSON
CaptureErrors == {"Cannot connect to host localhost:3000", "Attempt to decode JSON with unexpected mimetype"}

\* the dict the handler of _capture_memory returns for the error e
CaptureFailure(e) == [success |-> FALSE, error |-> e]

\* the confidence test with <= in place of <
SaveMemoryResponse_AtMost(r) ==
  IF Succeeded(r)
  THEN "Got it" \o EmDash \o "saved that " \o GetOr(r, "person", "someone")
       \o " " \o GetOr(r, "details", "information") \o "."
  ELSE IF GetOr(r, "confidence", 0) <= 70
       THEN "I couldn't find clear information about a specific person in what you said. Could you be more specific about who and what you learned about them?"
       ELSE "I had trouble saving that memory. Could you try rephrasing it?"

\* the answer of _save_memory_tool for the result r
SaveMemoryResponse(r) ==
  IF Succeeded(r)
  THEN "Got it" \o EmDash \o "saved that " \o GetOr(r, "person", "someone")
       \o " " \o GetOr(r, "details", "information") \o "."
  ELSE IF GetOr(r, "confidence", 0) < 70
       THEN "I couldn't find clear information about a specific person in what you said. Could you be more specific about who and what you learned about them?"
       ELSE "I had trouble saving that memory. Could you try rephrasing it?"

\* _save_memory_tool is called and awaits _capture_memory(memory_text)
SaveMemoryTool(text) ==
  /\ pc = "idle"
  /\ pc' = "capturing"
  /\ memory_text' = text
  /\ via_tool' = TRUE
  /\ UNCHANGED <<query, top_k, query_variations, vi, nmatch, all_contacts, occurrences,
                 failed, contacts, response, raised, self, first_call, provider_calls,
                 best_raw, cancelled_at, result, locals>>

\* the tool goes on with the dict r and returns its answer
SaveMemoryReturns(r) ==
  /\ result' = r
  /\ response' = SaveMemoryResponse(r)
  /\ pc' = "done"
  /\ UNCHANGED <<query, top_k, query_variations, vi, nmatch, all_contacts, occurrences,
                 failed, contacts, raised, via_tool, self, first_call, provider_calls,
                 best_raw, cancelled_at, memory_text, locals>>

\* the request is answered: _capture_memory returns the JSON of the response
CaptureReturns(json) ==
  /\ pc = "capturing"
  /\ SaveMemoryReturns(json)

\* the request fails: the handler of _capture_memory returns the failure dict
CaptureFails(e) ==
  /\ pc = "capturing"
  /\ SaveMemoryReturns(CaptureFailure(e))

NextMemory ==
  \/ \E text \in MemoryTexts : SaveMemoryTool(text)
  \/ \E json \in CaptureResults : CaptureReturns(json)
  \/ \E e \in CaptureErrors : CaptureFails(e)
  \/ NextCall

SpecMemory == Init /\ [][NextMemory]_vars

(***************************************************************************)
(* Properties of the candidate merger, checked under Spec.                 *)
(***************************************************************************)
\* _search_contacts has returned its list
Returned == pc \in {"searched", "done"}

\* the place of a name in the order of discovery
Discovered(name) == CHOOSE i \in 1..Len(occurrences) : occurrences[i].name = name

\* the stored entry of the name found first was replaced under the second
\* variation, the entry of the name found second is still that of the first
ReplacedUnderSecondVariation ==
  /\ Len(query_variations) >= 2
  /\ Len(all_contacts) >= 2
  /\ all_contacts[1].query_used = query_variations[2]
  /\ all_contacts[2].query_used = query_variations[1]

\* C1: the list _search_contacts returns never holds two contacts with the
\* same name, whatever the index returned for the variations.
C1_NoDuplicateNames ==
  Returned =>
    \A i, j \in 1..Len(contacts) : i # j => contacts[i].name # contacts[j].name

\* C1 witness: two contacts are returned and the name of one of them came back
\* from the index under two variations.
C1_Witness ==
  /\ Returned
  /\ Len(contacts) >= 2
  /\ ReplacedUnderSecondVariation

\* C2 as claimed: inside one search the stored entry of a name passes to another
\* variation only when the match of that variation has a strictly higher score
\* than the match the entry was built from (on equal scores the entry of the
\* earlier variation stays).
C2_ReplacedOnlyByHigherScore ==
  [][(pc = "matches" /\ pc' = "matches") =>
       \A i \in 1..Len(all_contacts) :
         all_contacts'[i].query_used # all_contacts[i].query_used
           => occurrences'[i].raw > occurrences[i].raw]_vars

\* C3: every contact of the returned list has a score at or above the
\* threshold of the call (0.25).
C3_ScoresAtOrAboveThreshold ==
  Returned => \A i \in 1..Len(contacts) : contacts[i].score >= MinScore

\* C3 witness: a returned contact sits exactly on the threshold, next to a
\* better one.
C3_Witness ==
  /\ Returned
  /\ \E i, j \in 1..Len(contacts) :
       contacts[i].score = MinScore /\ contacts[j].score > MinScore

\* C4: the returned list has at most top_k entries.
C4_AtMostTopK == Returned => Len(contacts) <= top_k

\* C4 witness: more names were stored than top_k allows and the list was cut.
C4_Witness ==
  /\ Returned
  /\ top_k >= 1
  /\ Len(all_contacts) > top_k
  /\ Len(contacts) = top_k

\* C5: the returned list is sorted by score, best first, and contacts of equal
\* score stand in the order in which their names were first stored.
C5_SortedTiesInDiscoveryOrder ==
  Returned =>
    \A i, j \in 1..Len(contacts) :
      i < j =>
        /\ contacts[i].score >= contacts[j].score
        /\ contacts[i].score = contacts[j].score
             => Discovered(contacts[i].name) < Discovered(contacts[j].name)

\* C5 witness: two returned contacts tie; the one found first had its entry
\* replaced under the second variation and still stands first.
C5_Witness ==
  /\ Returned
  /\ Len(contacts) >= 2
  /\ Len(query_variations) >= 2
  /\ contacts[1].score = contacts[2].score
  /\ Discovered(contacts[1].name) < Discovered(contacts[2].name)
  /\ contacts[1].query_used = query_variations[2]
  /\ contacts[2].query_used = query_variations[1]

\* C6: a provider failure skips only its variation: the entries stored so far
\* stay, the loop goes on with the next variation, nothing is raised, and a
\* search whose variations all failed returns the empty list.
C6_FailureSkipsOneVariation ==
  [][/\ failed' = failed + 1 =>
          /\ all_contacts' = all_contacts
          /\ vi' = vi + 1
          /\ pc' = "variation"
     /\ ~raised'
     /\ (Returned' /\ failed' = Len(query_variations')) => contacts' = <<>>]_vars

\* C6 witness: of three variations the second failed, and the returned list
\* holds a contact of the first and a contact of the third.
C6_Witness ==
  /\ Returned
  /\ Len(query_variations) = 3
  /\ failed = 1
  /\ \E i, j \in 1..Len(contacts) :
       /\ contacts[i].query_used = query_variations[1]
       /\ contacts[j].query_used = query_variations[3]

\* C10: the search tool never raises, and what it returns is one non-empty
\* string, whatever the providers did.
C10_ToolReturnsString ==
  /\ ~raised
  /\ pc # "raised"
  /\ (pc = "done" /\ via_tool) => (response \in STRING /\ Len(response) > 0)

\* C10 witness: the tool returned although every variation failed.
C10_Witness ==
  /\ pc = "done"
  /\ via_tool
  /\ Len(query_variations) >= 2
  /\ failed = Len(query_variations)

(***************************************************************************)
(* Properties of the search tool, checked under Spec.                      *)
(***************************************************************************)
\* the search tool has returned its string
ToolReturned == pc = "done" /\ via_tool

\* the name is in the list
Listed(cs, name) == \E i \in 1..Len(cs) : cs[i].name = name

\* C11 as claimed: the search tool rejects an empty or whitespace-only query
\* before any call to the embedding provider or the index, and does not answer
\* it with the zero-results apology.
C11_EmptyQueryRejected ==
  (via_tool /\ strip(query) = "") =>
    /\ provider_calls = <<>>
    /\ ToolReturned => ~startswith(response, "I searched for '")

\* C12 as claimed: under the search tool (top_k = 5) a match is retained if and
\* only if its score is at least 0.3, and at most 5 contacts reach the
\* formatter.
C12_RetainedFromThreeTenths ==
  via_tool =>
    /\ top_k = 5
    /\ \A i \in 1..Len(occurrences) : occurrences[i].raw >= 3000
    /\ \A n \in IndexNames : HasKey(all_contacts, n) <=> best_raw[n] >= 3000
    /\ Returned => Len(contacts) <= 5

\* the names for which the index returned a match above the threshold
Candidates == {n \in IndexNames : best_raw[n] > 2500}

\* C12 as amended: under the search tool (top_k = 5) a match passes the
\* threshold test if and only if its score is above 0.25 (0.25 itself is
\* dropped); a name is among the candidates exactly when the index returned a
\* match above 0.25 for it; at most 5 contacts, all of them candidates, reach
\* the formatter, and a candidate is left out only of a list of 5 contacts
\* whose stored scores are no lower than its own.
C12_RetainedAboveQuarter ==
  via_tool =>
    /\ top_k = 5
    /\ \A i \in 1..Len(occurrences) : occurrences[i].raw > 2500
    /\ \A n \in IndexNames : HasKey(all_contacts, n) <=> n \in Candidates
    /\ Returned =>
         /\ Len(contacts) <= 5
         /\ \A i \in 1..Len(contacts) : contacts[i].name \in Candidates
         /\ \A n \in Candidates :
              ~Listed(contacts, n) =>
                /\ Len(contacts) = 5
                /\ \A i \in 1..5 : contacts[i].score >= Lookup(all_contacts, n).score

\* C12 witness: the tool's search returned; the index returned matches above
\* 0.25 for more than 5 names, one of them with 0.2501 at best, and a match of
\* 0.25 for another name; 5 contacts are listed, a candidate is left out, and
\* the name that came back with 0.25 is no candidate.
C12_Witness ==
  /\ Returned
  /\ via_tool
  /\ Cardinality(Candidates) > 5
  /\ Len(contacts) = 5
  /\ \E n \in Candidates : ~Listed(contacts, n)
  /\ \E n \in Candidates : best_raw[n] = 2501
  /\ \E n \in IndexNames : best_raw[n] = 2500 /\ ~HasKey(all_contacts, n)

\* every provider call of the search failed
Outage == failed > 0 /\ failed = Len(query_variations)

\* every provider call succeeded and no match came back above the threshold
NoMatch == failed = 0 /\ \A n \in IndexNames : best_raw[n] <= 2500

\* C18: for one query, a search whose provider calls all fail and a search
\* whose calls succeed without a match above the threshold give the same answer
\* of the tool: the zero-results apology, a text made of the query alone.
C18_OutageAnsweredAsNoMatch ==
  (ToolReturned /\ (Outage \/ NoMatch)) =>
    response = "I searched for '" \o query
               \o "' but found no matches. Would you like to try a different term?"

\* C18 witness: the tool answered a search of several variations whose calls
\* succeeded and returned a match on the threshold, none above it.
C18_Witness ==
  /\ ToolReturned
  /\ NoMatch
  /\ Len(query_variations) >= 2
  /\ \E n \in IndexNames : best_raw[n] = 2500

(***************************************************************************)
(* Properties of the response formatter and of the provider calls, checked *)
(* under SpecFormat.                                                       *)
(***************************************************************************)
\* the formatter has returned its string
Formatted == pc = "done" /\ response # ""

\* the first place of sub in s, 0 when it does not occur
Place(sub, s) ==
  IF Contains(sub, s)
  THEN CHOOSE i \in 1..(Len(s) - Len(sub) + 1) :
         /\ SubSeq(s, i, i + Len(sub) - 1) = sub
         /\ \A k \in 1..(i - 1) : SubSeq(s, k, k + Len(sub) - 1) # sub
  ELSE 0

\* what follows the first occurrence of marker in s
After(s, marker) ==
  IF Contains(marker, s) THEN SubSeq(s, Place(marker, s) + Len(marker), Len(s)) ELSE ""

RECURSIVE CountOf(_, _)
\* the number of occurrences of sub in s
CountOf(sub, s) ==
  IF Len(s) < Len(sub) THEN 0
  ELSE (IF startswith(s, sub) THEN 1 ELSE 0) + CountOf(sub, Tail(s))

\* name, then 'a {title}', 'at {company}', 'in {location}', 'in the {industry}
\* industry', each only when its field is not empty, single blanks between, one
\* '.' at the end
SingleRendering(c) ==
  "I found " \o c.name
  \o (IF c.title = "" THEN "" ELSE " a " \o c.title)
  \o (IF c.company = "" THEN "" ELSE " at " \o c.company)
  \o (IF c.location = "" THEN "" ELSE " in " \o c.location)
  \o (IF c.industry = "" THEN "" ELSE " in the " \o c.industry \o " industry")
  \o "."

\* C13: scenario A: the expansion of 'enginners at gogle' has a variant that
\* contains 'engineers'; when the index returns Dana (Software Engineer, Google,
\* 0.81) for that variant only, the list is exactly [Dana, 0.81] and the answer
\* is "I found Dana a Software Engineer at Google.".  In general the answer for
\* a single contact is 'I found ' and the name, then the parts of the non-empty
\* fields in the fixed order, joined by single blanks and closed by one '.'.
C13_ScenarioAAndSingleResult ==
  /\ (via_tool /\ query = "enginners at gogle") =>
       /\ \E k \in 1..Len(query_variations) : Contains("engineers", query_variations[k])
       /\ (ToolReturned /\ best_raw["Dana"] = 8100) =>
            /\ Len(contacts) = 1
            /\ contacts[1].name = "Dana"
            /\ contacts[1].score = 8100
            /\ response = "I found Dana a Software Engineer at Google."
  /\ (Formatted /\ Len(contacts) = 1) => response = SingleRendering(contacts[1])

\* C13 witness: scenario A has run: the literal query failed or found nothing,
\* Dana came back for the corrected variant, and the tool answered.
C13_Witness ==
  /\ ToolReturned
  /\ query = "enginners at gogle"
  /\ best_raw["Dana"] = 8100
  /\ Len(contacts) = 1
  /\ contacts[1].query_used = "engineers at gogle"
  /\ response = "I found Dana a Software Engineer at Google."

\* the number of alternative terms the zero-results answer names
SuggestedTerms(resp) ==
  LET named == After(resp, "You might try searching for: ")
  IN IF named = "" THEN 0 ELSE CountOf(", ", named) + 1

\* C14: for an empty list the answer begins "I searched for '<query>' but found
\* no matches." with the query as the caller gave it, and names at most 3
\* alternative terms.
C14_NoMatchesQuotesQuery ==
  (Formatted /\ Len(contacts) = 0) =>
    /\ startswith(response, "I searched for '" \o query \o "' but found no matches.")
    /\ SuggestedTerms(response) <= 3

\* C14 witness: an empty list for a query with capitals, answered with 3
\* suggestions.
C14_Witness ==
  /\ Formatted
  /\ Len(contacts) = 0
  /\ query # lower(query)
  /\ SuggestedTerms(response) = 3

\* C15 as claimed: for two or more contacts 'They all work at <company>' is
\* stated only when all of them have one and the same non-empty company; with
\* more than one company, or with no company at all, it is not stated.
C15_AllWorkAtOnlySharedCompany ==
  (Formatted /\ Len(contacts) >= 2) =>
    (Contains("They all work at", response) =>
       /\ contacts[1].company # ""
       /\ \A i \in 1..Len(contacts) : contacts[i].company = contacts[1].company
       /\ Contains("They all work at " \o contacts[1].company \o ". ", response))

\* the part of the answer that lists the contacts
Listing(resp) == After(resp, "Here are a few: ")

\* exactly the first min(3, n) contacts are listed, in rank order
ListsFirstThree(cs, resp) ==
  /\ \A i \in 1..Len(cs) : (i <= 3) <=> Contains(cs[i].name, Listing(resp))
  /\ \A i, j \in 1..Min(3, Len(cs)) :
       i < j => Place(cs[i].name, Listing(resp)) < Place(cs[j].name, Listing(resp))

\* C16 as claimed: for n >= 2 contacts the answer lists exactly the first
\* min(3, n) in rank order; for n > 3 it appends 'and N others' with N = n - 3,
\* for n <= 3 no remainder.
C16_RemainderAsOthers ==
  (Formatted /\ Len(contacts) >= 2) =>
    /\ ListsFirstThree(contacts, response)
    /\ Len(contacts) > 3 =>
         Contains("and " \o ToString(Len(contacts) - 3) \o " others", Listing(response))
    /\ Len(contacts) <= 3 =>
         (~Contains(" others", Listing(response)) /\ ~Contains(" more", Listing(response)))

\* C16 as amended: for n >= 2 contacts the answer lists exactly the first
\* min(3, n) in rank order; for n > 3 it ends ', and N more.' with N = n - 3,
\* for n <= 3 no remainder.
C16_RemainderAsMore ==
  (Formatted /\ Len(contacts) >= 2) =>
    /\ ListsFirstThree(contacts, response)
    /\ Len(contacts) > 3 =>
         endswith(response, ", and " \o ToString(Len(contacts) - 3) \o " more.")
    /\ Len(contacts) <= 3 =>
         (~Contains(" others", Listing(response)) /\ ~Contains(" more", Listing(response)))

\* C16 witness: scenario D: 5 contacts, 3 at Acme and 2 at Other Co.
C16_Witness ==
  /\ Formatted
  /\ Len(contacts) = 5
  /\ \A i \in 1..3 : contacts[i].company = "Acme"
  /\ \A i \in 4..5 : contacts[i].company = "Other Co"
  /\ endswith(response, ", and 2 more.")

\* C17: _format_contact_response returns a non-empty string for every list,
\* raises nothing, and leaves the list, its contacts and the assistant as they
\* were.
C17_FormatterTotalAndPure ==
  [][(pc \in {"searched", "formatting"}) =>
       (/\ pc' = "done"
        /\ ~raised'
        /\ response' \in STRING
        /\ Len(response') > 0
        /\ contacts' = contacts
        /\ self' = self)]_vars

\* C17 witness: the formatter has answered a list of more than 3 contacts, one
\* of them with no title, company, location or industry.
C17_Witness ==
  /\ Formatted
  /\ Len(contacts) > 3
  /\ \E i \in 1..Len(contacts) :
       /\ contacts[i].title = "" /\ contacts[i].company = ""
       /\ contacts[i].location = "" /\ contacts[i].industry = ""

IsEmbeddingsCreate(call) == call.api = "embeddings.create"

IsIndexQuery(call) == call.api = "index.query"

\* C20: in one search each variation is embedded at most once and the index is
\* queried at most once per variation, right after the embedding of that
\* variation succeeded and for 2 * top_k neighbours; no failed call is made
\* again, there are at most 5 calls of each kind, and the variations are taken
\* in the order of the expander.
C20_OneCallPerVariantInOrder ==
  \A embeds \in {SelectSeq(provider_calls, IsEmbeddingsCreate)} :
  \A queries \in {SelectSeq(provider_calls, IsIndexQuery)} :
    /\ Len(embeds) <= 5
    /\ Len(queries) <= 5
    /\ Len(embeds) <= Len(query_variations)
    /\ \A k \in 1..Len(embeds) : embeds[k].input = query_variations[k]
    /\ \A i, j \in 1..Len(queries) : i # j => queries[i].input # queries[j].input
    /\ \A p \in 1..Len(provider_calls) :
         IsIndexQuery(provider_calls[p]) =>
           /\ p > 1
           /\ provider_calls[p - 1] = EmbeddingsCreate(provider_calls[p].input, TRUE)
           /\ provider_calls[p].top_k = 2 * top_k

\* C20 witness: a search of 5 variations is over: the embedding of the first
\* failed, the index query of the second failed, the others succeeded.
C20_Witness ==
  /\ Returned
  /\ Len(query_variations) = 5
  /\ Len(SelectSeq(provider_calls, IsEmbeddingsCreate)) = 5
  /\ Len(SelectSeq(provider_calls, IsIndexQuery)) = 4
  /\ failed = 2
  /\ ~provider_calls[1].ok
  /\ ~provider_calls[3].ok

(***************************************************************************)
(* Properties of the query expander, checked under SpecExpand.             *)
(***************************************************************************)
\* v is q without its leading and trailing whitespace
IsStripped(v, q) ==
  \E i \in 0..Len(q) : \E j \in i..Len(q) :
    /\ v = SubSeq(q, i + 1, j)
    /\ \A k \in 1..i : CharAt(q, k) \in Whitespace
    /\ \A k \in (j + 1)..Len(q) : CharAt(q, k) \in Whitespace
    /\ Len(v) > 0 => (CharAt(v, 1) \notin Whitespace /\ CharAt(v, Len(v)) \notin Whitespace)

\* C7 as claimed: 1 to 5 variants, the first of them the query text unchanged.
C7_FirstIsQueryUnchanged ==
  pc = "expanded" =>
    /\ Len(query_variations) \in 1..5
    /\ query_variations[1] = query

\* C7 as amended: 1 to 5 variants, the first of them the query text without
\* its leading and trailing whitespace.
C7_FirstIsQueryStripped ==
  pc = "expanded" =>
    /\ Len(query_variations) \in 1..5
    /\ IsStripped(query_variations[1], query)

\* C7 witness: a query with whitespace around it whose list was cut to 5.
C7_Witness ==
  /\ pc = "expanded"
  /\ Len(query_variations) = 5
  /\ query_variations[1] # query
  /\ Len(unique_variations(variations(query))) > 5

\* the call stepped through returned the list the call made in one step returns
SteppedAsWhole == pc = "expanded" => query_variations = _preprocess_query(query)

\* C8: a call with the query of an earlier call returns the list the earlier
\* call returned, whatever calls were made in between and whatever they left
\* in their local variables, and no call touches the fields of the assistant.
C8_SameQuerySameVariants ==
  /\ self = SelfAfterInit
  /\ (pc = "expanded" /\ first_call # NoCall /\ first_call.query = query)
       => query_variations = first_call.variations

\* C8 witness: a call repeats the query of the remembered call after a call of
\* another query, whose set `seen` was not empty, and returns several variants.
C8_Witness ==
  /\ pc = "expanded"
  /\ first_call.followed
  /\ first_call.query = query
  /\ Len(query_variations) > 1

\* the lower-cased texts of a list
Lowered(vs) == [k \in 1..Len(vs) |-> lower(vs[k])]

\* the first place of the lower-cased text v in the lower-cased list
FirstPlace(lowered, v) ==
  CHOOSE i \in 1..Len(lowered) :
    lowered[i] = v /\ \A k \in 1..(i - 1) : lowered[k] # v

\* C9: no two returned variants are equal up to case; each returned variant
\* is the first generated one of its case-insensitive class, and the returned
\* variants stand in the order of generation.
C9_UniqueUpToCaseInOrder ==
  pc = "expanded" =>
    \A gen \in {variations(query)} :
    \A genl \in {Lowered(gen)} :
    \A outl \in {Lowered(query_variations)} :
    \A place \in {[i \in 1..Len(outl) |->
                     IF \E k \in 1..Len(genl) : genl[k] = outl[i]
                     THEN FirstPlace(genl, outl[i]) ELSE 0]} :
      /\ \A i, j \in 1..Len(outl) : i # j => outl[i] # outl[j]
      /\ \A i \in 1..Len(outl) :
           /\ place[i] > 0
           /\ gen[place[i]] = query_variations[i]
      /\ \A i, j \in 1..Len(outl) : i < j => place[i] < place[j]

\* C9 witness: the generated list holds two variants that differ only in case,
\* and the first of them is returned.
C9_Witness ==
  /\ pc = "expanded"
  /\ \E gen \in {variations(query)} :
     \E genl \in {Lowered(gen)} :
        \E i, j \in 1..Len(gen) :
          /\ i < j
          /\ gen[i] # gen[j]
          /\ genl[i] = genl[j]
          /\ \E k \in 1..Len(query_variations) : query_variations[k] = gen[i]

\* the variants the expander makes without the role table
PlainVariations(q) ==
  <<strip(q)>> \o CorrectionsFrom(1, lower(q)) \o PluralsFrom(split(q), 1)

\* v is the token list with one token, a key of the role table, replaced by one
\* of the synonyms of that key
IsTokenSynonymVariant(v, tokens) ==
  \E i \in 1..Len(tokens), r \in 1..Len(role_expansions) :
    /\ tokens[i] = role_expansions[r][1]
    /\ \E e \in 1..Len(role_expansions[r][2]) :
         v = join(" ", [tokens EXCEPT ![i] = role_expansions[r][2][e]])

\* C19 as claimed: role synonyms apply to whole tokens only: every returned
\* variant that is not the query, a correction or a plural form is the query
\* with one token, itself a key of the role table, replaced by a synonym; a key
\* that occurs only inside a longer word makes no variant.
C19_RoleSynonymsForWholeTokens ==
  pc = "expanded" =>
    \A tokens \in {split(lower(query))} :
    \A plain \in {PlainVariations(query)} :
      \A k \in 1..Len(query_variations) :
        \/ \E j \in 1..Len(plain) : plain[j] = query_variations[k]
        \/ IsTokenSynonymVariant(query_variations[k], tokens)

(***************************************************************************)
(* Cancellation and the frame of a search.                                 *)
(***************************************************************************)
\* the session has cancelled the running search
Cancelled == cancelled_at >= 0

\* C21: once the hosting session has cancelled a running search, the search
\* makes no further provider call and the tool produces no summary string for
\* the abandoned query.
C21_CancelledSearchProducesNothing ==
  Cancelled => (Len(provider_calls) = cancelled_at /\ response = "")

\* the provider calls that read: the embedding of a text, a query of the index
ReadCalls == {"embeddings.create", "index.query"}

\* C22: a search writes no field of the assistant and makes only read calls
\* on the providers; between two calls nothing of a search is left, and every
\* contact a search returns was found under a variation of its own call.
C22_SearchLeavesAssistantAndIndexUnchanged ==
  /\ self = SelfAfterInit
  /\ \A p \in 1..Len(provider_calls) : provider_calls[p].api \in ReadCalls
  /\ pc = "idle" =>
       /\ all_contacts = <<>> /\ contacts = <<>> /\ query_variations = <<>>
       /\ provider_calls = <<>> /\ response = "" /\ query = ""
  /\ Returned =>
       \A i \in 1..Len(contacts) :
         \E v \in 1..Len(query_variations) :
           contacts[i].query_used = query_variations[v]

\* C22 witness: the tool has answered a search that made the provider calls of
\* two variations and found a contact.
C22_Witness ==
  /\ ToolReturned
  /\ Len(contacts) >= 1
  /\ Len(provider_calls) >= 4
  /\ self = SelfAfterInit

(***************************************************************************)
(* The order of the stages of the expander, checked under SpecExpand.      *)
(***************************************************************************)
\* the lower-cased text vl is among the texts of the list, up to case
Among(vl, list) == \E k \in 1..Len(list) : lower(list[k]) = vl

\* the rank of the lower-cased text vl in the order of generation of the query
\* q: the stage that makes it first (0 the original, 1 the corrections, 2 the
\* plural and singular forms, 3 the role expansions, 4 none of them) and its
\* first place in the list of that stage
Rank(vl, q, corrected, plurals, expanded) ==
  IF vl = lower(strip(q)) THEN 0
  ELSE IF Among(vl, corrected) THEN 1000 + FirstPlace(Lowered(corrected), vl)
  ELSE IF Among(vl, plurals) THEN 2000 + FirstPlace(Lowered(plurals), vl)
  ELSE IF Among(vl, expanded) THEN 3000 + FirstPlace(Lowered(expanded), vl)
  ELSE 4000

\* the returned variants stand in the order of the stages, each made by a
\* stage, and a text of a stage that is not returned comes after all that are
InStageOrder(q, out, corrected, plurals, expanded) ==
  \A rank \in {[i \in 1..Len(out) |-> Rank(lower(out[i]), q, corrected, plurals, expanded)]} :
    /\ \A i \in 1..Len(out) : rank[i] < 4000
    /\ \A i, j \in 1..Len(out) : i < j => rank[i] < rank[j]
    /\ \A made \in {corrected \o plurals \o expanded} :
         \A k \in 1..Len(made) :
           ~Among(lower(made[k]), out) =>
             /\ Len(out) = 5
             /\ rank[5] < Rank(lower(made[k]), q, corrected, plurals, expanded)

\* C23 as claimed: the original text first, then the corrections, the plural
\* and singular forms and the role expansions in this order; the cut to 5
\* removes variants from the end of this order only, and when an entry of the
\* typo table matches, a corrected variant is among the returned variants.
C23_OriginalFirstCorrectedReturned ==
  pc = "expanded" =>
    \A corrected \in {CorrectionsFrom(1, lower(query))} :
      /\ query_variations[1] = query
      /\ InStageOrder(query, query_variations, corrected,
                      PluralsFrom(split(query), 1), ExpansionsFrom(1, lower(query)))
      /\ corrected # <<>> =>
           \E i \in 1..Len(query_variations), c \in 1..Len(corrected) :
             query_variations[i] = corrected[c]

\* C23 as amended: the stripped query first, then the stages in this order up
\* to case; the cut removes variants from the end only, and when an entry of
\* the typo table matches, a returned variant equals a corrected one up to
\* case.
C23_StrippedFirstCorrectedUpToCase ==
  pc = "expanded" =>
    \A corrected \in {CorrectionsFrom(1, lower(query))} :
      /\ IsStripped(query_variations[1], query)
      /\ InStageOrder(query, query_variations, corrected,
                      PluralsFrom(split(query), 1), ExpansionsFrom(1, lower(query)))
      /\ corrected # <<>> =>
           \E i \in 1..Len(query_variations) : Among(lower(query_variations[i]), corrected)

\* C23 witness: a query with a typo whose list was cut to 5, with a corrected
\* variant and a plural or singular form returned and a role expansion cut off.
C23_Witness ==
  /\ pc = "expanded"
  /\ Len(query_variations) = 5
  /\ \E corrected \in {CorrectionsFrom(1, lower(query))} :
     \E plurals \in {PluralsFrom(split(query), 1)} :
     \E expanded \in {ExpansionsFrom(1, lower(query))} :
       /\ \E i \in 2..5 : \E c \in 1..Len(corrected) : query_variations[i] = corrected[c]
       /\ \E i \in 2..5 : \E c \in 1..Len(plurals) : query_variations[i] = plurals[c]
       /\ \E k \in 1..Len(expanded) : ~Among(lower(expanded[k]), query_variations)

(***************************************************************************)
(* The wording of the answers, checked under SpecFormat.                   *)
(***************************************************************************)
\* the number of contacts an answer for several contacts lists
ListedCount(cs) == Min(3, Len(cs))

\* C24 as claimed: in the answer for two or more contacts the listed snippets
\* are joined by ', ' except the last, which is joined by ' and ' with no comma
\* before it.
C24_LastSnippetJoinedByAnd ==
  (Formatted /\ Len(contacts) >= 2) =>
    \A listing \in {Listing(response)} :
      /\ \A i \in 2..(ListedCount(contacts) - 1) :
           Contains(", " \o contacts[i].name, listing)
      /\ Contains(" and " \o contacts[ListedCount(contacts)].name, listing)
      /\ ~Contains(", and " \o contacts[ListedCount(contacts)].name, listing)

\* C24 as amended: in the answer for two or more contacts every listed snippet
\* after the first is joined by ', ', the last one too; 'and' stands only in
\* the remainder ', and N more.' of an answer for more than 3 contacts.
C24_AllSnippetsJoinedByComma ==
  (Formatted /\ Len(contacts) >= 2) =>
    \A listing \in {Listing(response)} :
      /\ \A i \in 2..ListedCount(contacts) :
           Contains(", " \o contacts[i].name, listing)
      /\ CountOf(" and ", listing) = (IF Len(contacts) > 3 THEN 1 ELSE 0)
      /\ Len(contacts) > 3 =>
           endswith(listing, ", and " \o ToString(Len(contacts) - 3) \o " more.")

\* C24 witness: an answer for two or three contacts that lists Dana with a
\* title and then Sam Lee.
C24_Witness ==
  /\ Formatted
  /\ Len(contacts) \in {2, 3}
  /\ Contains("Dana, Engineer, Sam Lee", Listing(response))

\* the text closes with an invitation to go on: a question, or words that
\* offer to narrow the search or to give details
ClosesWithInvitation(resp) ==
  \/ endswith(resp, "?")
  \/ \E offer \in {"Would you like", "Want me to", "Should I", "Let me know",
                   "narrow", "details", "more about"} :
       Contains(offer, After(resp, "Here are a few: "))

\* C25: every answer for two or more contacts closes with a follow-up
\* invitation to narrow the search or to ask for details, for at most 3
\* contacts and for more than 3.
C25_MultiResultClosesWithInvitation ==
  (Formatted /\ Len(contacts) >= 2) => ClosesWithInvitation(response)

\* the company groups of a list: the companies, 'Other' for no company
CompanyGroups(cs) ==
  {IF cs[i].company = "" THEN "Other" ELSE cs[i].company : i \in 1..Len(cs)}

\* the part of the listing that belongs to the i-th listed contact: from its
\* name up to the separator before the next name, or up to the remainder, or
\* to the end
SnippetOf(cs, i, listing) ==
  LET from == Place(cs[i].name, listing)
      rest == SubSeq(listing, from, Len(listing))
      stop == IF i < ListedCount(cs) THEN Place(", " \o cs[i + 1].name, rest)
              ELSE IF Len(cs) > 3 THEN Place(", and ", rest)
              ELSE Len(rest) + 1
  IN SubSeq(rest, 1, stop - 1)

\* C26 as claimed: each listed snippet of an answer for several contacts has
\* the name, the title when not empty, the company when not empty and the
\* contacts are in more than one company group, and the location when not
\* empty.
C26_SnippetWithLocation ==
  (Formatted /\ Len(contacts) >= 2) =>
    \A listing \in {Listing(response)} :
    \A several \in {Cardinality(CompanyGroups(contacts)) > 1} :
    \A i \in 1..ListedCount(contacts) :
      \A c \in {contacts[i]} :
      \A snip \in {SnippetOf(contacts, i, listing)} :
        /\ startswith(snip, c.name)
        /\ c.title # "" => Contains(c.title, snip)
        /\ (c.company # "" /\ several) => Contains(c.company, snip)
        /\ (c.company # "" /\ ~several) => ~Contains(c.company, snip)
        /\ c.location # "" => Contains(c.location, snip)

\* C26 as amended: each listed snippet is the name, ', ' and the title when
\* the title is not empty, ' at ' and the company when the company is not
\* empty and the contacts are in more than one company group; the location is
\* never part of it.
C26_SnippetWithoutLocation ==
  (Formatted /\ Len(contacts) >= 2) =>
    \A listing \in {Listing(response)} :
    \A several \in {Cardinality(CompanyGroups(contacts)) > 1} :
    \A i \in 1..ListedCount(contacts) :
      \A c \in {contacts[i]} :
        /\ SnippetOf(contacts, i, listing) =
             c.name
             \o (IF c.title = "" THEN "" ELSE ", " \o c.title)
             \o (IF c.company = "" \/ ~several THEN "" ELSE " at " \o c.company)
        /\ c.location # "" => ~Contains(c.location, listing)

\* C26 witness: an answer that lists a contact with a title, a company and a
\* location next to a contact of another company.
C26_Witness ==
  /\ Formatted
  /\ Len(contacts) >= 2
  /\ contacts[1].company = "Acme"
  /\ contacts[2].company = "Other Co"
  /\ contacts[2].location = "Austin"
  /\ Contains("Dana, Engineer at Acme, Sam Lee, Designer at Other Co", response)

\* the answer names exactly these alternative terms
Suggests(resp, terms) ==
  endswith(resp, "You might try searching for: " \o terms \o ".")

\* the answer names no alternative term and asks for a different one
AsksForOtherTerm(resp) ==
  /\ endswith(resp, "but found no matches. Would you like to try a different term?")
  /\ ~Contains("You might try", resp)

\* the lower-cased query holds none of the keywords of the suggestions
NoKeyword(ql) ==
  \A keyword \in {"engineer", "design", "manag", "dev"} : ~Contains(keyword, ql)

\* C27 as claimed: in the zero-results answer a query that contains 'design',
\* in any case, gets the suggestions 'designers', 'UX designers', 'UI
\* designers', also when it contains another role keyword; a query with no
\* keyword gets no suggestion and the question for a different term.
C27_DesignAlwaysSuggestsDesigners ==
  (Formatted /\ Len(contacts) = 0) =>
    \A ql \in {lower(query)} :
      /\ Contains("design", ql) =>
           Suggests(response, "designers, UX designers, UI designers")
      /\ NoKeyword(ql) => AsksForOtherTerm(response)

\* C27 as amended: the keywords are tested in the order 'engineer', 'design',
\* 'manag', 'dev' on the lower-cased query and the first that the query
\* contains picks the suggestions: a query that contains 'design' gets the
\* designer suggestions unless it contains 'engineer', which gets the engineer
\* suggestions; a query with no keyword gets the question.
C27_FirstKeywordPicksSuggestions ==
  (Formatted /\ Len(contacts) = 0) =>
    \A ql \in {lower(query)} :
      /\ Contains("engineer", ql) =>
           Suggests(response, "engineers, developers, software engineers")
      /\ (Contains("design", ql) /\ ~Contains("engineer", ql)) =>
           Suggests(response, "designers, UX designers, UI designers")
      /\ (Contains("manag", ql) /\ ~Contains("engineer", ql) /\ ~Contains("design", ql)) =>
           Suggests(response, "managers, product managers, project managers")
      /\ (/\ Contains("dev", ql) /\ ~Contains("manag", ql)
          /\ ~Contains("engineer", ql) /\ ~Contains("design", ql)) =>
           Suggests(response, "developers, engineers, software developers")
      /\ NoKeyword(ql) => AsksForOtherTerm(response)

\* C27 witness: a search for 'design engineer' found nothing and the answer
\* suggests the engineer terms.
C27_Witness ==
  /\ Formatted
  /\ Len(contacts) = 0
  /\ Contains("design", lower(query))
  /\ Contains("engineer", lower(query))
  /\ Suggests(response, "engineers, developers, software engineers")

(***************************************************************************)
(* The stored score and the raw scores, checked under SpecMerge.           *)
(***************************************************************************)
\* r is the score x to 3 decimals: a multiple of 0.001 nearest to it (for a
\* score halfway between two, either of them)
Nearest3(r, x) == r % 10 = 0 /\ r - 5 <= x /\ x <= r + 5

\* the stored score of every name is the best raw score the index returned
\* for it so far, to 3 decimals; a name is stored once a score of it was above
\* the threshold
StoredIsBestRounded ==
  /\ \A i \in 1..Len(all_contacts) :
       Nearest3(all_contacts[i].score, best_raw[all_contacts[i].name])
  /\ \A name \in IndexNames : HasKey(all_contacts, name) <=> best_raw[name] > 2500

\* a step of a retrieval leaves every stored name stored, with a score that is
\* not lower
StoredNeverDecreases ==
  (pc \in {"variation", "embedded", "matches"}) =>
    \A i \in 1..Len(all_contacts) :
      /\ HasKey(all_contacts', all_contacts[i].name)
      /\ Lookup(all_contacts', all_contacts[i].name).score >= all_contacts[i].score

\* C28: with the stored score rounded to 3 decimals and a later raw score
\* tested against the stored one, the stored score of a name never decreases
\* during a retrieval, and the score stored and reported for a name is the
\* highest raw score among its occurrences above the threshold, rounded to 3
\* decimals.
C28_StoredScoreIsRoundedMaximum ==
  /\ [](StoredIsBestRounded)
  /\ [](Returned =>
          \A i \in 1..Len(contacts) :
            Nearest3(contacts[i].score, best_raw[contacts[i].name]))
  /\ [][StoredNeverDecreases]_vars

\* C28 witness: Dana is reported with 0.701; the entry is that of a match with
\* 0.7006, and a later match with 0.7008, the highest raw score, was tested
\* against the stored 0.701 and skipped.
C28_Witness ==
  /\ Returned
  /\ Len(contacts) >= 1
  /\ contacts[1].name = "Dana"
  /\ contacts[1].score = 7010
  /\ best_raw["Dana"] = 7008
  /\ \E o \in 1..Len(occurrences) :
       occurrences[o].name = "Dana" /\ occurrences[o].raw = 7006

\* C29: the matches without a name are keyed under the empty string: however
\* many of them the index returns over the variations, the result holds at
\* most one contact with an empty name, and that contact is built from the
\* best-scoring match without a name.
C29_OneNamelessContactOfBestMatch ==
  Returned =>
    /\ Cardinality({i \in 1..Len(contacts) : contacts[i].name = ""}) <= 1
    /\ \A i \in 1..Len(contacts) :
         contacts[i].name = "" =>
           \E o \in 1..Len(occurrences) :
             /\ occurrences[o].name = ""
             /\ occurrences[o].raw = best_raw[""]

(***************************************************************************)
(* The answers of the save_memory tool, checked under SpecMemory.          *)
(***************************************************************************)
\* the save_memory tool has returned
MemoryAnswered == pc = "done" /\ result # NoResult

\* the three answers of the tool
Confirmation(person, details) ==
  "Got it" \o EmDash \o "saved that " \o person \o " " \o details \o "."

NoClearPerson ==
  "I couldn't find clear information about a specific person in what you said. Could you be more specific about who and what you learned about them?"

TroubleSaving == "I had trouble saving that memory. Could you try rephrasing it?"

\* the result says the capture succeeded
SuccessTrue(r) == "success" \in DOMAIN r /\ r["success"] = TRUE

\* the result carries a confidence of 0.7 or more
Confident(r) == "confidence" \in DOMAIN r /\ r["confidence"] >= 70

\* C30: the save_memory tool raises nothing and returns one of three texts:
\* the confirmation with the person and the details of the result ('someone'
\* and 'information' when missing) exactly when the result has success true;
\* the trouble message exactly when the result is unsuccessful with a
\* confidence of 0.7 or more; the no-clear-person message for every other
\* unsuccessful result, a failed request among them.
C30_SaveMemoryAnswers ==
  MemoryAnswered =>
    /\ ~raised
    /\ SuccessTrue(result) <=>
         \E person \in {"Sarah", "someone"}, details \in {"works at Google", "information"} :
           /\ response = Confirmation(person, details)
           /\ "person" \in DOMAIN result => person = result["person"]
           /\ "details" \in DOMAIN result => details = result["details"]
    /\ (~SuccessTrue(result) /\ Confident(result)) <=> response = TroubleSaving
    /\ (~SuccessTrue(result) /\ ~Confident(result)) <=> response = NoClearPerson
    /\ "error" \in DOMAIN result => response = NoClearPerson

\* C30 witness: the request failed and the tool answered with the
\* no-clear-person message.
C30_Witness ==
  /\ MemoryAnswered
  /\ "error" \in DOMAIN result
  /\ "confidence" \notin DOMAIN result
  /\ response = NoClearPerson

====
